---------------------------- MODULE Spec2Model ----------------------------
(***************************************************************************)
(* Repulsive curves (utof/repulsive_curves_implementation, JavaScript      *)
(* port): the topology cache (init_curve), one descent step                *)
(* (repulsion_iteration) and the page that drives them (+page.svelte).     *)
(*                                                                         *)
(* Numbers.  A JavaScript number is modelled as an exact rational <<n,d>>  *)
(* in lowest terms with d > 0; <<0,0>> is NaN.  In every place of the code *)
(* where a division by zero can happen the quotient is 0/0 or is at once   *)
(* multiplied by 0 (diff/norm of a zero edge, 0-vector times 1/0, ...), so *)
(* Infinity never reaches a comparison and x/0 is modelled as NaN.         *)
(* Math.sqrt is exact on the squares of rationals; the curves and the      *)
(* displacements the model draws keep every edge on a coordinate axis, so  *)
(* that every length the code takes is such a square root.                 *)
(*                                                                         *)
(* Indices are 0-based as in the code: E, V, Ac, E_adj and lengths are     *)
(* functions on 0..n-1; a row of E is a pair <<E.get([i,0]), E.get([i,1])>>*)
(* and a row of V a triple.                                                *)
(***************************************************************************)
EXTENDS Integers, Sequences, FiniteSets, TLC

---------------------------------------------------------------------------
(* JavaScript numbers as rationals *)

NaN == <<0, 0>>

Abs(n) == IF n < 0 THEN -n ELSE n

RECURSIVE GCD(_, _)
GCD(a, b) == IF b = 0 THEN a ELSE GCD(b, a % b)

RNorm(n, d) ==
  IF d = 0 THEN NaN
  ELSE LET g == GCD(Abs(n), Abs(d))
           s == IF d < 0 THEN -1 ELSE 1
       IN  <<(s * n) \div g, (s * d) \div g>>

Int2R(n) == <<n, 1>>
Zero == <<0, 1>>
IsNaN(x) == x[2] = 0

RNeg(x) == IF IsNaN(x) THEN NaN ELSE <<-x[1], x[2]>>

RAdd(x, y) ==
  IF IsNaN(x) \/ IsNaN(y) THEN NaN
  ELSE LET g == GCD(x[2], y[2])
       IN  RNorm(x[1] * (y[2] \div g) + y[1] * (x[2] \div g), (x[2] \div g) * y[2])

RSub(x, y) == RAdd(x, RNeg(y))

RMul(x, y) ==
  IF IsNaN(x) \/ IsNaN(y) THEN NaN
  ELSE LET g1 == GCD(Abs(x[1]), y[2])
           g2 == GCD(Abs(y[1]), x[2])
       IN  RNorm((x[1] \div g1) * (y[1] \div g2), (x[2] \div g2) * (y[2] \div g1))

RInv(y) ==
  IF IsNaN(y) \/ y[1] = 0 THEN NaN
  ELSE IF y[1] < 0 THEN <<-y[2], -y[1]>> ELSE <<y[2], y[1]>>

RDiv(x, y) == RMul(x, RInv(y))

\* x <= y and x < y of JavaScript: false as soon as one side is NaN
\* (whole parts first, then the fractions, to keep the products small)
RLe(x, y) ==
  /\ ~IsNaN(x) /\ ~IsNaN(y)
  /\ \/ x[1] \div x[2] < y[1] \div y[2]
     \/ /\ x[1] \div x[2] = y[1] \div y[2]
        /\ (x[1] % x[2]) * y[2] <= (y[1] % y[2]) * x[2]

RLt(x, y) == RLe(x, y) /\ x # y

RAbs(x) == IF IsNaN(x) THEN NaN ELSE <<Abs(x[1]), x[2]>>

RECURSIVE RPow(_, _)
RPow(x, k) == IF k = 0 THEN Int2R(1) ELSE RMul(x, RPow(x, k - 1))

RECURSIVE ISqrt(_)
ISqrt(n) ==
  IF n < 2 THEN n
  ELSE LET s == 2 * ISqrt(n \div 4)
       IN  IF (s + 1) * (s + 1) > n THEN s ELSE s + 1

IsSquare(n) == n >= 0 /\ ISqrt(n) * ISqrt(n) = n

\* Math.sqrt, exact on the squares of rationals
RSqrt(x) == IF IsNaN(x) \/ x[1] < 0 THEN NaN ELSE <<ISqrt(x[1]), ISqrt(x[2])>>

IsRSquare(x) == ~IsNaN(x) /\ IsSquare(x[1]) /\ IsSquare(x[2])

---------------------------------------------------------------------------
(* The vector helpers of init_curve.js and repulsion_iteration.js *)

Vec0 == <<Zero, Zero, Zero>>

\* (every vector the code hands to these three has three entries)
subtractVectors(v1, v2) ==
  << RSub(v1[1], v2[1]), RSub(v1[2], v2[2]), RSub(v1[3], v2[3]) >>

addVectors(v1, v2) ==
  << RAdd(v1[1], v2[1]), RAdd(v1[2], v2[2]), RAdd(v1[3], v2[3]) >>

scaleVector(v, scale) ==
  << RMul(v[1], scale), RMul(v[2], scale), RMul(v[3], scale) >>

crossProduct(v1, v2) ==
  << RSub(RMul(v1[2], v2[3]), RMul(v1[3], v2[2])),
     RSub(RMul(v1[3], v2[1]), RMul(v1[1], v2[3])),
     RSub(RMul(v1[1], v2[2]), RMul(v1[2], v2[1])) >>

\* the sum of the entries f[lo], ..., f[hi] in index order
RECURSIVE RSumFrom(_, _, _)
RSumFrom(f, lo, hi) ==
  IF hi < lo THEN Zero ELSE RAdd(RSumFrom(f, lo, hi - 1), f[hi])

\* the sum of the entries of an array, 0-based or 1-based
RSum(f) ==
  IF 0 \in DOMAIN f THEN RSumFrom(f, 0, Cardinality(DOMAIN f) - 1)
  ELSE RSumFrom(f, 1, Cardinality(DOMAIN f))

\* v.reduce((sum, x) => sum + x * x, 0)
SumSq(v) == RSum([i \in DOMAIN v |-> RMul(v[i], v[i])])

vectorNorm(v) == RSqrt(SumSq(v))

\* Math.pow(vectorNorm(v), p) for an integer p >= 0; for an even p the square
\* root cancels, so the power is exact for every rational vector
NormPow(v, p) ==
  IF p % 2 = 0 THEN RPow(SumSq(v), p \div 2)
  ELSE RMul(RPow(SumSq(v), (p - 1) \div 2), vectorNorm(v))

\* the sequence <<0, 1, ..., n-1>>: the order in which the loops visit indices
Indices(n) == [k \in 1..n |-> k - 1]

Rows(A) == Cardinality(DOMAIN A)

---------------------------------------------------------------------------
(* Parameters of the page and bounds of the model *)

alpha == 3
beta == 6
a_const == <<1, 100>>
b_const == <<9, 10>>
max_iters == 20
threshold == <<1, 1000>>

\* vertices of the curves whose topology is enumerated
TopoPts == 4
\* edges of the curves whose topology is enumerated
MaxEdges == 3
\* calls of repulsion_iteration since the curve was loaded or reset
MaxSteps == 2
\* The length the normalised descent direction is stretched to.  The code
\* stretches it to 10000000; the model keeps the stretch but with a length
\* whose sixth powers stay inside TLC's integers.
scaleFactor == 2
\* The line search gives up when t < 1e-10, which with b_const = 0.9 is after
\* the trial with t = 0.9^218; the model's floor is b_const^FloorSteps, so the
\* last trial is the one with t = b_const^FloorSteps.
FloorSteps == 3
\* size of the entries of a non-zero energy gradient
DerivMag == 30

t_floor == RPow(b_const, FloorSteps)

---------------------------------------------------------------------------
(* State *)

VARIABLES
  V,            \* store V: vertex positions (0-based function of triples)
  E,            \* store E: edge rows
  Ac,           \* store Ac
  E_adj,        \* store E_adj
  lengths,      \* store lengths: rest lengths, set at load and at reset
  OV,           \* the vertices saved at load for reset, or Undefined
  isAnimating,  \* the page's animation flag
  framePending, \* a requestAnimationFrame callback is registered
  topo,         \* what the last direct call of init_curve returned
  probe,        \* arguments and result of a routine that is called on its own
  pc,           \* where the running call of repulsion_iteration stands
  caller,       \* who called step(): "key" (h), "animate", or "none"
  nsteps,       \* calls of repulsion_iteration since load or reset
  it            \* the locals of the current (or last) repulsion_iteration

stores == <<V, E, Ac, E_adj, lengths, OV>>

vars == <<V, E, Ac, E_adj, lengths, OV, isAnimating, framePending, topo,
          probe, pc, caller, nsteps, it>>

\* no routine has been called on its own
NoProbe == [fn |-> "none"]

\* let OV; before the first load
Undefined == [defined |-> FALSE]

\* the locals before any call
Blank ==
  [Vin |-> <<>>, V |-> <<>>, constr_edges |-> <<>>, l0 |-> Zero, L |-> <<>>,
   T |-> <<>>, Deriv |-> <<>>, Unknown |-> <<>>, descent_dir |-> <<>>,
   t |-> Int2R(1), V_new |-> <<>>, iter |-> 0, Unknown2 |-> <<>>,
   solved2 |-> FALSE, Left |-> <<>>, assemblies |-> 0,
   f_delta |-> Zero, right_side |-> Zero, calls |-> {}, outcome |-> "none", error |-> ""]

---------------------------------------------------------------------------
(* init_curve *)

\* edges I and J share no vertex, the test a mutated build of Ac would make
\* with the comparison of I's second and J's first endpoint left out
DisjointNoCross(e, f) == e[1] # f[1] /\ e[1] # f[2] /\ e[2] # f[2]

\* if (i1 !== j1 && i1 !== j2 && i2 !== j1 && i2 !== j2)
Disjoint(e, f) == e[1] # f[1] /\ e[1] # f[2] /\ e[2] # f[1] /\ e[2] # f[2]

\* a build of Ac whose inner loop starts at j = i + 1
AcRowLater(Es, i) ==
  SelectSeq(Indices(Rows(Es)), LAMBDA j : i < j /\ Disjoint(Es[i], Es[j]))

\* the row Ac[i]: every j # i, in increasing order, whose edge is disjoint from i
AcRow(Es, i) ==
  SelectSeq(Indices(Rows(Es)), LAMBDA j : i # j /\ Disjoint(Es[i], Es[j]))

BuildAc(Es) == [i \in 0..(Rows(Es) - 1) |-> AcRow(Es, i)]

\* E_adj after the first n edges: E_adj[v1].push(i); E_adj[v2].push(i)
RECURSIVE EAdjUpTo(_, _, _)
EAdjUpTo(Es, pt_num, n) ==
  IF n = 0 THEN [p \in 0..(pt_num - 1) |-> <<>>]
  ELSE LET prev == EAdjUpTo(Es, pt_num, n - 1)
           i == n - 1
           a == [prev EXCEPT ![Es[i][1]] = Append(@, i)]
       IN  [a EXCEPT ![Es[i][2]] = Append(@, i)]

BuildEAdj(Es, pt_num) == EAdjUpTo(Es, pt_num, Rows(Es))

\* E_adj[v] is undefined for an index outside 0..pt_num-1 and .push throws
EdgesInRange(Es, pt_num) ==
  \A i \in DOMAIN Es : Es[i][1] \in 0..(pt_num - 1) /\ Es[i][2] \in 0..(pt_num - 1)

EdgeLengths(Es, Vs) ==
  [i \in DOMAIN Es |-> vectorNorm(subtractVectors(Vs[Es[i][1]], Vs[Es[i][2]]))]

Thrown == [ok |-> FALSE, called |-> TRUE]

\* init_curve(E, V): the returned {Ac, E_adj, lengths}, or the exception
init_curve(Es, Vs) ==
  LET pt_num == Rows(Vs)
  IN  IF ~EdgesInRange(Es, pt_num) THEN Thrown
      ELSE LET ls == EdgeLengths(Es, Vs)
           IN  IF \E i \in DOMAIN ls : IsNaN(ls[i]) THEN Thrown
               ELSE [ok |-> TRUE, called |-> TRUE, Ac |-> BuildAc(Es),
                     E_adj |-> BuildEAdj(Es, pt_num), lengths |-> ls]

---------------------------------------------------------------------------
(* init_curve on every small edge list *)

NotCalled == [ok |-> FALSE, called |-> FALSE]

\* an endpoint index; TopoPts itself is the index just past the last vertex
TopoPairs == (0..TopoPts) \X (0..TopoPts)

SquareE == [i \in 0..3 |-> <<i, (i + 1) % 4>>]

TopoEdgeLists ==
  (UNION {[0..(m - 1) -> TopoPairs] : m \in 0..MaxEdges}) \cup {SquareE}

\* TopoPts vertices on the x axis, one unit apart
TopoV == [p \in 0..(TopoPts - 1) |-> <<Int2R(p), Zero, Zero>>]

TopoInit ==
  /\ E \in TopoEdgeLists
  /\ V = TopoV
  /\ Ac = <<>> /\ E_adj = <<>> /\ lengths = <<>>
  /\ OV = Undefined
  /\ isAnimating = FALSE /\ framePending = FALSE
  /\ pc = "idle" /\ caller = "none" /\ nsteps = 0 /\ it = Blank
  /\ topo = NotCalled /\ probe = NoProbe

TopoCall ==
  /\ topo = NotCalled
  /\ topo' = init_curve(E, V)
  /\ UNCHANGED <<stores, isAnimating, framePending, probe, pc, caller, nsteps, it>>

TopoNext == TopoCall

TopoSpec == TopoInit /\ [][TopoNext]_vars

---------------------------------------------------------------------------
(* read_curve_file.  A file is its sequence of lines; a line is the        *)
(* characters w of its first word and the numbers t that follow it.        *)
(* line[0] is the first character of w; the tokens of line.slice(1) are    *)
(* what is left of w, when it has more than one character, and then t.     *)

vLine(x, y, z) == [w |-> <<"v">>, t |-> <<Int2R(x), Int2R(y), Int2R(z)>>]
lLine(i, j) == [w |-> <<"l">>, t |-> <<i, j>>]

\* a vertex normal `vn x y z` and a comment `# ...`
vnLine(x, y, z) == [w |-> <<"v", "n">>, t |-> <<Int2R(x), Int2R(y), Int2R(z)>>]
commentLine == [w |-> <<"#">>, t |-> <<>>]

LinesOf(content, ch) == SelectSeq(content, LAMBDA line : line.w[1] = ch)

RMax(S) == CHOOSE x \in S : \A y \in S : RLe(y, x)
RMin(S) == CHOOSE x \in S : \A y \in S : RLe(x, y)

\* parseFloat of the first three tokens of line.slice(1): the rest of the
\* first word is not a number
VertexTokens(line) ==
  IF Len(line.w) = 1 THEN line.t ELSE <<NaN, line.t[1], line.t[2]>>

\* Math.max and Math.min over the values of a column: NaN if one of them is
MathMax(S) == IF \E x \in S : IsNaN(x) THEN NaN ELSE RMax(S)
MathMin(S) == IF \E x \in S : IsNaN(x) THEN NaN ELSE RMin(S)

read_curve_file(content) ==
  LET vs == LinesOf(content, "v")
      ls == LinesOf(content, "l")
      raw == [p \in 0..(Len(vs) - 1) |-> VertexTokens(vs[p + 1])]
      Es == [i \in 0..(Len(ls) - 1) |->
               <<ls[i + 1].t[1] - 1, ls[i + 1].t[2] - 1>>]
      col(j) == {raw[p][j] : p \in DOMAIN raw}
      ext(j) == RSub(MathMax(col(j)), MathMin(col(j)))
      scale == MathMax({ext(1), ext(2), ext(3)})
      center(j) == RDiv(RAdd(MathMin(col(j)), MathMax(col(j))), Int2R(2))
  IN  [V |-> [p \in DOMAIN raw |->
                [j \in 1..3 |->
                   RMul(RDiv(RSub(raw[p][j], center(j)), scale), Int2R(2))]],
       E |-> Es]

\* the curve the page loads when it is mounted: the square
exampleData ==
  << vLine(-1, -1, 0), vLine(1, -1, 0), vLine(1, 1, 0), vLine(-1, 1, 0),
     lLine(1, 2), lLine(2, 3), lLine(3, 4), lLine(4, 1) >>

\* one edge
SegmentFile == << vLine(0, 0, 0), vLine(1, 0, 0), lLine(1, 2) >>

\* the square without its last edge: an open curve
OpenFile ==
  << vLine(-1, -1, 0), vLine(1, -1, 0), vLine(1, 1, 0), vLine(-1, 1, 0),
     lLine(1, 2), lLine(2, 3), lLine(3, 4) >>

\* a path whose first two vertices coincide
DegenerateFile ==
  << vLine(0, 0, 0), vLine(0, 0, 0), vLine(2, 0, 0), lLine(1, 2), lLine(2, 3) >>

\* an edge from a vertex to itself
SelfLoopFile == << vLine(0, 0, 0), vLine(2, 0, 0), lLine(1, 2), lLine(2, 2) >>

\* an edge to a vertex the file does not have
BadIndexFile == << vLine(0, 0, 0), vLine(2, 0, 0), lLine(1, 3) >>

\* three edges meeting in one vertex
StarFile ==
  << vLine(0, 0, 0), vLine(-1, 0, 0), vLine(1, 0, 0), vLine(0, 1, 0),
     lLine(1, 2), lLine(1, 3), lLine(1, 4) >>

\* two vertices of degree 3 joined by an edge: the letter H
HFile ==
  << vLine(-1, 1, 0), vLine(-1, 0, 0), vLine(-1, -1, 0),
     vLine(1, 1, 0), vLine(1, 0, 0), vLine(1, -1, 0),
     lLine(1, 2), lLine(2, 3), lLine(4, 5), lLine(5, 6), lLine(2, 5) >>

\* two disjoint edges and a vertex on no edge
IsolatedFile ==
  << vLine(0, 0, 0), vLine(2, 0, 0), vLine(0, 1, 0), vLine(2, 1, 0),
     vLine(1, 2, 0), lLine(1, 2), lLine(3, 4) >>

Files == {exampleData, SegmentFile, OpenFile, DegenerateFile, SelfLoopFile,
          BadIndexFile, StarFile, HFile, IsolatedFile}

---------------------------------------------------------------------------
(* The page: loadCurveData and reset *)

\* Ac.set, E_adj.set, lengths.set of what init_curve($E, $V) returned; when it
\* throws, the three stores keep what they held
SetTopology(result) ==
  IF result.ok
  THEN Ac' = result.Ac /\ E_adj' = result.E_adj /\ lengths' = result.lengths
  ELSE UNCHANGED <<Ac, E_adj, lengths>>

\* read_curve_file of every file of the model, and init_curve of what it read
FileCurves == [content \in Files |-> read_curve_file(content)]

FileTopology ==
  [content \in Files |-> init_curve(FileCurves[content].E, FileCurves[content].V)]

loadCurveData(content) ==
  LET r == FileCurves[content]
  IN  /\ OV' = [defined |-> TRUE, V |-> r.V]
      /\ V' = r.V
      /\ E' = r.E
      /\ SetTopology(FileTopology[content])

reset ==
  /\ OV.defined
  /\ V' = OV.V
  /\ SetTopology(init_curve(E, OV.V))
  /\ UNCHANGED <<E, OV>>

(* read_curve_file called on its own, on every file of at most MaxLines    *)
(* lines drawn from ReadLines                                              *)
MaxLines == 3

ReadLines ==
  {vLine(0, 0, 0), vLine(2, 0, 0), vLine(0, 1, 0), vnLine(0, 0, 1),
   lLine(1, 2), lLine(2, 3), commentLine}

ReadContents == UNION {[1..n -> ReadLines] : n \in 1..MaxLines}

ReadInit ==
  /\ probe \in {[fn |-> "content", content |-> content] : content \in ReadContents}
  /\ E = <<>> /\ V = <<>>
  /\ Ac = <<>> /\ E_adj = <<>> /\ lengths = <<>>
  /\ OV = Undefined
  /\ isAnimating = FALSE /\ framePending = FALSE
  /\ pc = "idle" /\ caller = "none" /\ nsteps = 0 /\ it = Blank
  /\ topo = NotCalled

\* const { V: newV, E: newE } = read_curve_file(content)
ReadCurveFileCall ==
  /\ probe.fn = "content"
  /\ LET r == read_curve_file(probe.content)
     IN  probe' = [fn |-> "read_curve_file", content |-> probe.content,
                   V |-> r.V, E |-> r.E]
  /\ UNCHANGED <<stores, isAnimating, framePending, topo, pc, caller, nsteps, it>>

ReadNext == ReadCurveFileCall

ReadSpec == ReadInit /\ [][ReadNext]_vars

---------------------------------------------------------------------------
(* repulsion_iteration: what the call computes *)

\* a flat vector of 3 * pt_num entries, entry 3p + c for coordinate c of p
ZeroFlat(pt_num) == [q \in 0..(3 * pt_num - 1) |-> Zero]

scaleFlat(u, s) == [q \in DOMAIN u |-> RMul(u[q], s)]

\* V.get([i, j]) + t * d.get([3 * i + j, 0]) for every i and j
Displaced(Vs, s, d) ==
  [p \in DOMAIN Vs |-> << RAdd(Vs[p][1], RMul(s, d[3 * p])),
                          RAdd(Vs[p][2], RMul(s, d[3 * p + 1])),
                          RAdd(Vs[p][3], RMul(s, d[3 * p + 2])) >>]

\* the edges at the vertices of degree > 2, vertex by vertex
RECURSIVE ConstrEdgesUpTo(_, _)
ConstrEdgesUpTo(adj, n) ==
  IF n = 0 THEN <<>>
  ELSE ConstrEdgesUpTo(adj, n - 1) \o
         (IF Len(adj[n - 1]) > 2 THEN adj[n - 1] ELSE <<>>)

RECURSIVE Digits(_)
Digits(n) == IF n < 10 THEN 1 ELSE 1 + Digits(n \div 10)

\* the number written by the decimal strings of ls[0..n-1] one after another
RECURSIVE ConcatUpTo(_, _)
ConcatUpTo(ls, n) ==
  IF n = 0 THEN 0
  ELSE ConcatUpTo(ls, n - 1) * (10 ^ Digits(ls[n - 1][1])) + ls[n - 1][1]

\* lengths.toArray().reduce((sum, val) => sum + val, 0): the store holds a
\* column matrix, val is a one-element array and + concatenates strings;
\* l0 - x later reads the string "0" ++ l_0 ++ l_1 ++ ... as a number.  Whole
\* lengths give that decimal; a single length gives itself; two lengths with
\* a fraction give a string with two decimal points, which is NaN.
TotalRestLength(ls) ==
  IF Rows(ls) = 0 THEN Zero
  ELSE IF Rows(ls) = 1 THEN ls[0]
  ELSE IF \A i \in DOMAIN ls : ~IsNaN(ls[i]) /\ ls[i][2] = 1
       THEN Int2R(ConcatUpTo(ls, Rows(ls)))
       ELSE NaN

\* diff = v2 - v1 of edge i
EdgeDiff(Es, Vs, i) == subtractVectors(Vs[Es[i][2]], Vs[Es[i][1]])

CurrentLengths(Es, Vs) == [i \in DOMAIN Es |-> vectorNorm(EdgeDiff(Es, Vs, i))]

\* T.set([i, j], diff[j] / norm)
Tangents(Es, Vs) ==
  [i \in DOMAIN Es |->
     LET diff == EdgeDiff(Es, Vs, i)
         norm == vectorNorm(diff)
     IN  << RDiv(diff[1], norm), RDiv(diff[2], norm), RDiv(diff[3], norm) >>]

\* E_adj[i] is undefined, or V.get fails in getVertex, before anything is built
PrologueThrows(Es, adj, Vs) ==
  \/ \E i \in DOMAIN Vs : i \notin DOMAIN adj
  \/ ~EdgesInRange(Es, Rows(Vs))

\* the sum the code calls f_delta, over I, J in Ac[I] and the endpoint pairs
Energy(Es, Acs, Vs, Ts, Ls) ==
  RSum([I \in DOMAIN Acs |->
    RSum([n \in 1..Len(Acs[I]) |->
      RSum([i \in 1..2 |->
        RSum([j \in 1..2 |->
          LET J == Acs[I][n]
              d == subtractVectors(Vs[Es[I][i]], Vs[Es[J][j]])
              cr == crossProduct(Ts[I], d)
          IN  RMul(RMul(RMul(RMul(<<1, 4>>, Ls[I]), Ls[J]),
                        NormPow(cr, alpha)),
                   RInv(NormPow(d, beta)))])])])])

\* right_side: (sum of descent_dir[i] * Deriv[i]) * t * a_const
RightSide(d, Der, s) ==
  RMul(RSum([q \in DOMAIN d |-> RMul(d[q], Der[q])]), RMul(s, a_const))

\* constraint_vals: l0 minus the current total length, then for every
\* constrained edge its rest length minus its current length
ConstraintVals(total, ce, rest, Lnew) ==
  [i \in 0..Len(ce) |->
     IF i = 0 THEN RSub(total, RSum(Lnew))
     ELSE RSub(rest[ce[i]], Lnew[ce[i]])]

\* vectorNorm(constraint_vals) <= threshold, compared on the squares
WithinThreshold(r) == RLe(SumSq(r), RMul(threshold, threshold))

\* the sum of 3-vectors: addVectors over the edges
RSum3(f) == [j \in 1..3 |-> RSum([i \in DOMAIN f |-> f[i][j]])]

\* the barycenter of the edge midpoints weighted with the lengths Ls
Barycenter(Es, Vs, Ls) ==
  scaleVector(
    RSum3([i \in DOMAIN Es |->
             scaleVector(addVectors(Vs[Es[i][1]], Vs[Es[i][2]]),
                         RMul(<<1, 2>>, Ls[i]))]),
    RInv(RSum(Ls)))

Recentered(Es, Vs, Ls) ==
  [p \in DOMAIN Vs |-> subtractVectors(Vs[p], Barycenter(Es, Vs, Ls))]

---------------------------------------------------------------------------
(* What the model does not compute: loss_derivative and lusolve.  Both are *)
(* functions of their arguments; the model draws their values from small   *)
(* sets of vectors that keep every edge on a coordinate axis.              *)

\* the x coordinate of every vertex, as a displacement along x
XScaleDir(Vs) ==
  [q \in 0..(3 * Rows(Vs) - 1) |-> IF q % 3 = 0 THEN Vs[q \div 3][1] ELSE Zero]

\* the vertices right of the origin one unit to the right, those above it
\* one unit down
SlideDir(Vs) ==
  [q \in 0..(3 * Rows(Vs) - 1) |->
     IF q % 3 = 0 /\ RLt(Zero, Vs[q \div 3][1]) THEN Int2R(1)
     ELSE IF q % 3 = 1 /\ RLt(Zero, Vs[q \div 3][2]) THEN Int2R(-1)
     ELSE Zero]

Patterns(Vs) == {XScaleDir(Vs), SlideDir(Vs)}

Signed(S) == S \cup {scaleFlat(u, Int2R(-1)) : u \in S}

\* every edge of the curve has a length whose square root is exact
ExactGeom(Es, Vs) == \A i \in DOMAIN Es : IsRSquare(SumSq(EdgeDiff(Es, Vs, i)))

\* loss_derivative writes the block of p from the pairs (I, J) with I at p
\* and J in Ac[I]; a vertex without such a pair keeps its zeros
HasPartner(Acs, adj, p) == \E n \in 1..Len(adj[p]) : Acs[adj[p][n]] # <<>>

\* a gradient with entries at every vertex
Unmasked(Acs, adj, u) == u

Masked(Acs, adj, u) ==
  [q \in DOMAIN u |-> IF HasPartner(Acs, adj, q \div 3) THEN u[q] ELSE Zero]

DerivSet(Acs, adj, Vs) ==
  {Masked(Acs, adj, scaleFlat(u, Int2R(DerivMag))) : u \in Signed(Patterns(Vs))}
    \cup {ZeroFlat(Rows(Vs))}

\* descent_dir: -Unknown, divided by its norm, times scaleFactor
DescentDir(u) ==
  LET neg == [q \in DOMAIN u |-> RNeg(u[q])]
      descent_norm == vectorNorm(neg)
  IN  [q \in DOMAIN u |-> RMul(RDiv(neg[q], descent_norm), Int2R(scaleFactor))]

\* the first 3 * pt_num entries of lusolve(Left, Right): zero for a zero
\* right-hand side, otherwise some vector
DirectionSolutions(Es, Vs, Der) ==
  IF Der = ZeroFlat(Rows(Vs)) THEN {ZeroFlat(Rows(Vs))}
  ELSE {u \in Signed(Patterns(Vs)) :
          /\ IsRSquare(SumSq(u)) /\ SumSq(u) # Zero
          /\ ExactGeom(Es, Displaced(Vs, Int2R(1), DescentDir(u)))}

\* the size of a projection correction, as a fraction of XScaleDir
CorrStep == <<1, 40>>

\* the first 3 * pt_num entries of lusolve(Left, Right2) for a non-zero
\* residual
ProjectionSolutions(Vs) ==
  {ZeroFlat(Rows(Vs)), scaleFlat(XScaleDir(Vs), CorrStep)}

---------------------------------------------------------------------------
(* constraint_derivative and the saddle-point matrix Left *)

\* the row of the total length: for every point p minus the sum, over the
\* edges I at p, of (V[p] - V[other end of I]) / L[I], at columns 3p..3p+2
TotalLengthRow(Es, Vs, Ls, adj) ==
  LET term(p, I) ==
        IF Es[I][1] = p
        THEN scaleVector(subtractVectors(Vs[Es[I][1]], Vs[Es[I][2]]), RInv(Ls[I]))
        ELSE IF Es[I][2] = p
        THEN scaleVector(subtractVectors(Vs[Es[I][2]], Vs[Es[I][1]]), RInv(Ls[I]))
        ELSE <<Zero, Zero, Zero>>
      deriv(p) ==
        [c \in 1..3 |-> RNeg(RSum([n \in 1..Len(adj[p]) |-> term(p, adj[p][n])[c]]))]
  IN  [q \in 0..(3 * Rows(Vs) - 1) |-> deriv(q \div 3)[(q % 3) + 1]]

\* the row of the constrained edge I = (i1, i2): -diff / L[I] at columns
\* 3 * i1 .. 3 * i1 + 2 and diff / L[I] at 3 * i2 .. 3 * i2 + 2, written in
\* that order
EdgeLengthRow(Es, Vs, Ls, I) ==
  LET i1 == Es[I][1]
      i2 == Es[I][2]
      diff == subtractVectors(Vs[i1], Vs[i2])
  IN  [q \in 0..(3 * Rows(Vs) - 1) |->
         IF q \div 3 = i2 THEN RDiv(diff[(q % 3) + 1], Ls[I])
         ELSE IF q \div 3 = i1 THEN RDiv(RNeg(diff[(q % 3) + 1]), Ls[I])
         ELSE Zero]

\* C: row 0 for the total length, row i for the constrained edge ce[i]
constraint_derivative(Es, Vs, Ls, adj, ce) ==
  [r \in 0..Len(ce) |->
     IF r = 0 THEN TotalLengthRow(Es, Vs, Ls, adj)
     ELSE EdgeLengthRow(Es, Vs, Ls, ce[r])]

\* Left = buildBlockMatrix(A_bar, C, Z).  The block C is computed; the block
\* A_bar, whose entries are powers 13/3 of distances, is given by the
\* arguments build_weights and build_A_bar compute it from.
buildBlockMatrix(Es, Acs, adj, Vs, Ts, Ls, ce) ==
  [A_bar |-> [pt_num |-> Rows(Vs), E |-> Es, Ac |-> Acs, V |-> Vs, T |-> Ts, L |-> Ls],
   C |-> constraint_derivative(Es, Vs, Ls, adj, ce)]

---------------------------------------------------------------------------
(* build_weights and build_A_bar, called on their own.  The weights take   *)
(* the power 2 * sigma + 1 = 13/3 of a distance, which is rational when    *)
(* the distance is the cube of a rational; the geometries below keep every *)
(* distance that is raised to that power such a cube.                      *)

RECURSIVE ICbrt(_)
ICbrt(n) ==
  IF n < 2 THEN n
  ELSE LET s == 2 * ICbrt(n \div 8)
       IN  IF (s + 1) * (s + 1) * (s + 1) > n THEN s ELSE s + 1

IsCube(n) == n >= 0 /\ ICbrt(n) * ICbrt(n) * ICbrt(n) = n

IsRCube(x) == ~IsNaN(x) /\ IsCube(x[1]) /\ IsCube(x[2])

\* pow(diff_norm, 2 * sigma + 1) with sigma = (beta - 1) / alpha: the root of
\* order alpha = 3, raised to the power 2 * (beta - 1) + alpha
PowSigma(x) ==
  IF IsNaN(x) THEN NaN
  ELSE RPow(<<ICbrt(x[1]), ICbrt(x[2])>>, 2 * (beta - 1) + alpha)

\* a === b of JavaScript on numbers: NaN equals nothing
NumEq(x, y) == ~IsNaN(x) /\ ~IsNaN(y) /\ x = y

\* the increments of an endpoint pair without the test of diff_norm
WeightTermNoGuard(Es, Vs, Ts, I, J, n) ==
  LET p == Vs[Es[I][(n \div 2) + 1]]
      q == Vs[Es[J][(n % 2) + 1]]
      diff == subtractVectors(p, q)
      diff_norm == vectorNorm(diff)
      cross == crossProduct(diff, Ts[I])
      k == RDiv(RPow(vectorNorm(cross), 2), RPow(diff_norm, 4))
  IN  [elt1 |-> RInv(PowSigma(diff_norm)), elt2 |-> RDiv(k, PowSigma(diff_norm))]

\* the endpoint pair n = 0..3 of the loops "for i of [i1, i2], for j of
\* [j1, j2]": what it adds to elt1 and to elt2
WeightTerm(Es, Vs, Ts, I, J, n) ==
  LET p == Vs[Es[I][(n \div 2) + 1]]
      q == Vs[Es[J][(n % 2) + 1]]
      diff == subtractVectors(p, q)
      diff_norm == vectorNorm(diff)
  IN  \* Math.abs(diff_norm) < 0.00000001: the model's distances are 0 or large
      IF diff_norm = Zero THEN [elt1 |-> Int2R(1000), elt2 |-> Int2R(1000)]
      ELSE LET cross == crossProduct(diff, Ts[I])
               k == RDiv(RPow(vectorNorm(cross), 2), RPow(diff_norm, 4))
           IN  [elt1 |-> RInv(PowSigma(diff_norm)),
                elt2 |-> RDiv(k, PowSigma(diff_norm))]

\* W and W0 set at every (I, J) with J # I, disjoint or not
build_weightsAllPairs(Es, Acs, Vs, Ts, Ls) ==
  LET term(I, J) == [n \in 0..3 |-> WeightTerm(Es, Vs, Ts, I, J, n)]
      quarter(I, J) == RMul(RMul(<<1, 4>>, Ls[I]), Ls[J])
      w_val(I, J) == RMul(quarter(I, J), RSum([n \in 0..3 |-> term(I, J)[n].elt1]))
      w0_val(I, J) == RMul(quarter(I, J), RSum([n \in 0..3 |-> term(I, J)[n].elt2]))
  IN  [W |-> [I \in DOMAIN Es |-> [J \in DOMAIN Es |->
                IF J # I THEN w_val(I, J) ELSE Zero]],
       W0 |-> [I \in DOMAIN Es |-> [J \in DOMAIN Es |->
                IF J # I THEN w0_val(I, J) ELSE Zero]]]

\* W and W0: zeros(edge_num, edge_num), set at (I, J) for J in Ac[I]
build_weights(Es, Acs, Vs, Ts, Ls) ==
  LET has(I, J) == \E k \in 1..Len(Acs[I]) : Acs[I][k] = J
      term(I, J) == [n \in 0..3 |-> WeightTerm(Es, Vs, Ts, I, J, n)]
      quarter(I, J) == RMul(RMul(<<1, 4>>, Ls[I]), Ls[J])
      w_val(I, J) == RMul(quarter(I, J), RSum([n \in 0..3 |-> term(I, J)[n].elt1]))
      w0_val(I, J) == RMul(quarter(I, J), RSum([n \in 0..3 |-> term(I, J)[n].elt2]))
  IN  [W |-> [I \in DOMAIN Es |-> [J \in DOMAIN Es |->
                IF has(I, J) THEN w_val(I, J) ELSE Zero]],
       W0 |-> [I \in DOMAIN Es |-> [J \in DOMAIN Es |->
                IF has(I, J) THEN w0_val(I, J) ELSE Zero]]]

dotProduct(v1, v2) == RSum([i \in 1..3 |-> RMul(v1[i], v2[i])])

\* what the pass (I, J, a, b) of the loops adds to A = B + B0 at (r, c); the
\* eight updates of the pass are added one after the other
PassAdds(Es, Ts, Ls, W, W0, I, J, a, b, r, c) ==
  LET Ia == Es[I][a + 1]
      Ib == Es[I][b + 1]
      Ja == Es[J][a + 1]
      Jb == Es[J][b + 1]
      sign == IF (a + b) % 2 = 0 THEN Int2R(1) ELSE Int2R(-1)
      diagValue == RDiv(RMul(sign, W[I][J]), RPow(Ls[I], 2))
      offDiagValue ==
        RDiv(RMul(RMul(sign, W[I][J]), dotProduct(Ts[I], Ts[J])),
             RMul(Ls[I], Ls[J]))
      q0 == RMul(<<1, 4>>, W0[I][J])
      upd == << <<Ia, Ib, diagValue>>, <<Ja, Jb, diagValue>>,
                <<Ia, Jb, RNeg(offDiagValue)>>, <<Ja, Ib, RNeg(offDiagValue)>>,
                <<Ia, Ib, q0>>, <<Ja, Jb, q0>>,
                <<Ia, Jb, RNeg(q0)>>, <<Ja, Ib, RNeg(q0)>> >>
  IN  RSum([u \in 1..8 |->
             IF upd[u][1] = r /\ upd[u][2] = c THEN upd[u][3] ELSE Zero])

\* the entry (r, c) of A = add(B, B0)
AEntry(Es, Acs, Ts, Ls, W, W0, r, c) ==
  RSum([I \in DOMAIN Acs |->
    RSum([n \in 1..Len(Acs[I]) |->
      RSum([ab \in 0..3 |->
        PassAdds(Es, Ts, Ls, W, W0, I, Acs[I][n], ab \div 2, ab % 2, r, c)])])])

\* A_bar: zeros(3 * n, 3 * n) with A in the three diagonal blocks
build_A_bar(pt_num, Es, Acs, Ts, Ls, W, W0) ==
  LET A == [r \in 0..(pt_num - 1) |-> [c \in 0..(pt_num - 1) |->
              AEntry(Es, Acs, Ts, Ls, W, W0, r, c)]]
  IN  [i \in 0..(3 * pt_num - 1) |-> [j \in 0..(3 * pt_num - 1) |->
         IF i \div pt_num = j \div pt_num
         THEN A[i % pt_num][j % pt_num] ELSE Zero]]

\* four vertices, two on the x axis and two on the y axis, every vertex of
\* one axis at the distance sqrt(a^2 + c^2) from every vertex of the other
CrossV(a, c) ==
  [p \in 0..3 |->
     IF p = 0 THEN <<a, Zero, Zero>>
     ELSE IF p = 1 THEN <<RNeg(a), Zero, Zero>>
     ELSE IF p = 2 THEN <<Zero, c, Zero>>
     ELSE <<Zero, RNeg(c), Zero>>]

\* four vertices on the x axis, at 0, 9, 1 and 8
LineV ==
  [p \in 0..3 |->
     <<Int2R(IF p = 0 THEN 0 ELSE IF p = 1 THEN 9 ELSE IF p = 2 THEN 1 ELSE 8),
       Zero, Zero>>]

\* CrossV(3/5, 4/5) with vertex 1 moved onto vertex 0
CoincidentV == [CrossV(<<3, 5>>, <<4, 5>>) EXCEPT ![1] = <<(<<3, 5>>), Zero, Zero>>]

\* two segments from (0,0,0) to (1,0,0), one on the other
OverlapV ==
  [p \in 0..3 |-> <<Int2R(IF p \in {0, 2} THEN 0 ELSE 1), Zero, Zero>>]

WeightGeoms ==
  {CrossV(<<3, 5>>, <<4, 5>>), CrossV(<<4, 5>>, <<3, 5>>),
   CrossV(<<24, 5>>, <<32, 5>>), LineV, CoincidentV, OverlapV}

WeightPairs == (0..3) \X (0..3)

\* edges of the curves that build_weights and build_A_bar are called with
WeightEdges == 2

WeightEdgeLists == UNION {[0..(m - 1) -> WeightPairs] : m \in 1..WeightEdges}

\* every square root and every power 13/3 that build_weights takes of the
\* curve is rational
ExactWeights(Es, Vs) ==
  /\ ExactGeom(Es, Vs)
  /\ \A I \in DOMAIN Es : \A J \in DOMAIN Es :
       Disjoint(Es[I], Es[J]) =>
         \A i \in 1..2 : \A j \in 1..2 :
           LET diff == subtractVectors(Vs[Es[I][i]], Vs[Es[J][j]])
               TI == Tangents(Es, Vs)[I]
           IN  /\ IsRSquare(SumSq(diff))
               /\ IsRCube(vectorNorm(diff))
               /\ IsNaN(TI[1]) \/ IsRSquare(SumSq(crossProduct(diff, TI)))

WeightInit ==
  /\ E \in WeightEdgeLists
  /\ V \in WeightGeoms
  /\ ExactWeights(E, V)
  /\ Ac = BuildAc(E) /\ E_adj = BuildEAdj(E, Rows(V))
  /\ lengths = EdgeLengths(E, V)
  /\ OV = [defined |-> TRUE, V |-> V]
  /\ isAnimating = FALSE /\ framePending = FALSE
  /\ pc = "idle" /\ caller = "none" /\ nsteps = 0 /\ it = Blank
  /\ topo = NotCalled /\ probe = NoProbe

\* const { W, W0 } = build_weights(alpha, beta, E, Ac, V, T, L) with the T
\* and L that repulsion_iteration computes from V
BuildWeightsCall ==
  /\ probe = NoProbe
  /\ LET Ts == Tangents(E, V)
         Ls == CurrentLengths(E, V)
         r == build_weights(E, Ac, V, Ts, Ls)
     IN  probe' = [fn |-> "build_weights", T |-> Ts, L |-> Ls,
                   W |-> r.W, W0 |-> r.W0]
  /\ UNCHANGED <<stores, isAnimating, framePending, topo, pc, caller, nsteps, it>>

\* const A_bar = build_A_bar(pt_num, E, Ac, T, L, W, W0)
BuildABarCall ==
  /\ probe.fn = "build_weights"
  /\ probe' = [fn |-> "build_A_bar", T |-> probe.T, L |-> probe.L,
               W |-> probe.W, W0 |-> probe.W0,
               A_bar |-> build_A_bar(Rows(V), E, Ac, probe.T, probe.L,
                                     probe.W, probe.W0)]
  /\ UNCHANGED <<stores, isAnimating, framePending, topo, pc, caller, nsteps, it>>

WeightNext == BuildWeightsCall \/ BuildABarCall

WeightSpec == WeightInit /\ [][WeightNext]_vars
---------------------------------------------------------------------------
(* repulsion_iteration and the handlers of the page, step by step *)

\* V after the writes V_new.set(...) of a V_new that shares V's storage
AfterTrialWriteShared(Vs, Vn) == Vn

\* V after the writes V_new.set(...): V_new = matrix(V) is a copy, so V keeps
\* its entries
AfterTrialWrite(Vs, Vn) == Vs

\* step(): V.update hands the stores' values to repulsion_iteration, which
\* runs up to the first call of a build routine
Enter(c) ==
  /\ pc = "idle"
  /\ nsteps < MaxSteps
  /\ caller' = c
  /\ nsteps' = nsteps + 1
  /\ IF PrologueThrows(E, E_adj, V)
     THEN /\ pc' = "thrown"
          /\ it' = [Blank EXCEPT !.Vin = V, !.V = V,
                                 !.error = "Invalid vertex access"]
     ELSE /\ pc' = "build"
          /\ it' = [Blank EXCEPT !.Vin = V, !.V = V,
                      !.constr_edges = ConstrEdgesUpTo(E_adj, Rows(V)),
                      !.l0 = TotalRestLength(lengths),
                      !.L = CurrentLengths(E, V),
                      !.T = Tangents(E, V)]
  /\ UNCHANGED <<stores, topo, probe>>

KeyH == Enter("key") /\ UNCHANGED <<isAnimating, framePending>>

KeySpaceOn ==
  /\ ~isAnimating
  /\ isAnimating' = TRUE
  /\ Enter("animate")
  /\ UNCHANGED framePending

\* a toggle that leaves the requested frame pending
KeySpaceOffNoCancel ==
  /\ pc = "idle"
  /\ isAnimating
  /\ isAnimating' = FALSE
  /\ UNCHANGED <<stores, framePending, topo, probe, pc, caller, nsteps, it>>

KeySpaceOff ==
  /\ pc = "idle"
  /\ isAnimating
  /\ isAnimating' = FALSE
  /\ framePending' = FALSE
  /\ UNCHANGED <<stores, topo, probe, pc, caller, nsteps, it>>

Frame ==
  /\ framePending
  /\ framePending' = FALSE
  /\ Enter("animate")
  /\ UNCHANGED isAnimating

KeyR ==
  /\ pc = "idle"
  /\ reset
  /\ nsteps' = 0
  /\ it' = Blank
  /\ UNCHANGED <<isAnimating, framePending, topo, probe, pc, caller>>

FileLoaded ==
  /\ pc = "idle"
  /\ \E content \in Files : loadCurveData(content)
  /\ nsteps' = 0
  /\ it' = Blank
  /\ UNCHANGED <<isAnimating, framePending, topo, probe, pc, caller>>

running == <<stores, isAnimating, framePending, topo, probe, caller, nsteps>>

Build ==
  /\ pc = "build"
  /\ \E Der \in DerivSet(Ac, E_adj, it.V) :
       it' = [it EXCEPT !.Deriv = Der,
                        !.calls = {"build_weights", "build_A_bar",
                                   "loss_derivative", "constraint_derivative"},
                        !.Left = buildBlockMatrix(E, Ac, E_adj, it.V, it.T, it.L,
                                                  it.constr_edges),
                        !.assemblies = it.assemblies + 1]
  /\ pc' = "solve"
  /\ UNCHANGED running

\* a build routine throws; nothing is caught before step()
BuildThrows ==
  /\ pc = "build"
  /\ it' = [it EXCEPT !.error = "build routine failed"]
  /\ pc' = "thrown"
  /\ UNCHANGED running

SolveOk ==
  /\ pc = "solve"
  /\ \E u \in DirectionSolutions(E, it.V, it.Deriv) :
       it' = [it EXCEPT !.Unknown = u, !.descent_dir = DescentDir(u),
                        !.t = Int2R(1), !.V_new = it.V]
  /\ pc' = "trial"
  /\ UNCHANGED running

SolveThrows ==
  /\ pc = "solve"
  /\ it' = [it EXCEPT !.error = "Matrix solving failed"]
  /\ pc' = "thrown"
  /\ UNCHANGED running

TrialStep ==
  /\ pc = "trial"
  /\ LET Vn == Displaced(it.V, it.t, it.descent_dir)
     IN  it' = [it EXCEPT !.V_new = Vn, !.V = AfterTrialWrite(it.V, Vn),
                          !.iter = 0]
  /\ pc' = "project"
  /\ UNCHANGED running

\* constraint_vals of a round: L_new is taken with getVertex, which reads V
Residual ==
  ConstraintVals(it.l0, it.constr_edges, lengths, CurrentLengths(E, it.V))

\* the value of iter when the projection loop ends: a round is run while
\* iter < max_iters and the residual is not within the threshold.  The
\* residual is taken from V, l0 and lengths, which no round writes, so the
\* test has the same outcome, within, in every round.
RECURSIVE RoundsEnd(_, _)
RoundsEnd(iter, within) ==
  IF iter < max_iters /\ ~within THEN RoundsEnd(iter + 1, within) ELSE iter

ProjectBreak ==
  /\ pc = "project"
  /\ WithinThreshold(Residual)
  /\ pc' = "armijo"
  /\ UNCHANGED <<running, it>>

\* a projection that assembles Left again, from the candidate, before it
\* solves
ProjectRoundsReassembles ==
  /\ pc = "project"
  /\ ~WithinThreshold(Residual)
  /\ \E u2 \in (IF it.solved2 THEN {it.Unknown2} ELSE ProjectionSolutions(it.V)) :
       LET end == RoundsEnd(it.iter, WithinThreshold(Residual))
       IN  it' = [it EXCEPT !.Unknown2 = u2, !.solved2 = TRUE,
                            !.V_new = Displaced(it.V_new, Int2R(end - it.iter), u2),
                            !.iter = end,
                            !.Left = buildBlockMatrix(E, Ac, E_adj, it.V_new, it.T,
                                                      it.L, it.constr_edges),
                            !.assemblies = it.assemblies + 1]
  /\ pc' = "armijo"
  /\ UNCHANGED running

\* Left is the same in every round and Right2 depends on the residual only,
\* so a residual that was solved for before gets the same Unknown2; every
\* round adds it to V_new
ProjectRounds ==
  /\ pc = "project"
  /\ ~WithinThreshold(Residual)
  /\ \E u2 \in (IF it.solved2 THEN {it.Unknown2} ELSE ProjectionSolutions(it.V)) :
       LET end == RoundsEnd(it.iter, WithinThreshold(Residual))
       IN  it' = [it EXCEPT !.Unknown2 = u2, !.solved2 = TRUE,
                            !.V_new = Displaced(it.V_new, Int2R(end - it.iter), u2),
                            !.iter = end]
  /\ pc' = "armijo"
  /\ UNCHANGED running

ProjectThrows ==
  /\ pc = "project"
  /\ ~WithinThreshold(Residual)
  /\ ~it.solved2
  /\ it' = [it EXCEPT !.error = "Matrix solving failed"]
  /\ pc' = "thrown"
  /\ UNCHANGED running

\* the two sides of the test of line 768: f_delta is summed from V, T and L
LineSearchTest ==
  /\ pc = "armijo"
  /\ it' = [it EXCEPT
              !.f_delta = Energy(E, Ac, it.V, it.T, it.L),
              !.right_side = RightSide(it.descent_dir, it.Deriv, it.t)]
  /\ pc' = "test"
  /\ UNCHANGED running

ArmijoAccept ==
  /\ pc = "test"
  /\ RLe(it.f_delta, it.right_side)
  /\ it' = [it EXCEPT !.V = it.V_new, !.outcome = "accepted"]
  /\ pc' = "recenter"
  /\ UNCHANGED running

\* a rejected trial that goes back to the trial with t as it was
ArmijoShrinkKeepsT ==
  /\ pc = "test"
  /\ ~RLe(it.f_delta, it.right_side)
  /\ ~RLt(RMul(it.t, b_const), t_floor)
  /\ pc' = "trial"
  /\ UNCHANGED <<running, it>>

ArmijoShrink ==
  /\ pc = "test"
  /\ ~RLe(it.f_delta, it.right_side)
  /\ ~RLt(RMul(it.t, b_const), t_floor)
  /\ it' = [it EXCEPT !.t = RMul(it.t, b_const)]
  /\ pc' = "trial"
  /\ UNCHANGED running

ArmijoStall ==
  /\ pc = "test"
  /\ ~RLe(it.f_delta, it.right_side)
  /\ RLt(RMul(it.t, b_const), t_floor)
  /\ it' = [it EXCEPT !.t = RMul(it.t, b_const), !.outcome = "stalled"]
  /\ pc' = "recenter"
  /\ UNCHANGED running

\* a return that also stores the current edge lengths as the rest lengths
ReturnRemeasures ==
  /\ pc = "recenter"
  /\ LET ret == Recentered(E, it.V, it.L)
     IN  it' = [it EXCEPT !.V = ret] /\ V' = ret
  /\ lengths' = it.L
  /\ pc' = "idle"
  /\ caller' = "none"
  /\ framePending' = IF caller = "animate" THEN isAnimating ELSE framePending
  /\ UNCHANGED <<E, Ac, E_adj, OV, isAnimating, topo, probe, nsteps>>

\* the recentering after the loop, the return, V.update's assignment and
\* what animate() does after step()
Return ==
  /\ pc = "recenter"
  /\ LET ret == Recentered(E, it.V, it.L)
     IN  it' = [it EXCEPT !.V = ret] /\ V' = ret
  /\ pc' = "idle"
  /\ caller' = "none"
  /\ framePending' = IF caller = "animate" THEN isAnimating ELSE framePending
  /\ UNCHANGED <<E, Ac, E_adj, lengths, OV, isAnimating, topo, probe, nsteps>>

\* the exception leaves repulsion_iteration, V.update, step() and the
\* handler; the store keeps the matrix it handed in
Throw ==
  /\ pc = "thrown"
  /\ V' = it.V
  /\ it' = [it EXCEPT !.outcome = "thrown"]
  /\ pc' = "idle"
  /\ caller' = "none"
  /\ UNCHANGED <<E, Ac, E_adj, lengths, OV, isAnimating, framePending, topo,
                 probe, nsteps>>

Init ==
  LET r == FileCurves[exampleData]
      result == FileTopology[exampleData]
  IN  /\ V = r.V /\ E = r.E /\ OV = [defined |-> TRUE, V |-> r.V]
      /\ Ac = result.Ac /\ E_adj = result.E_adj /\ lengths = result.lengths
      /\ isAnimating = FALSE /\ framePending = FALSE
      /\ topo = NotCalled /\ probe = NoProbe
      /\ pc = "idle" /\ caller = "none" /\ nsteps = 0 /\ it = Blank

Next ==
  \/ FileLoaded \/ KeyR \/ KeyH \/ KeySpaceOn \/ KeySpaceOff \/ Frame
  \/ Build \/ BuildThrows \/ SolveOk \/ SolveThrows \/ TrialStep
  \/ ProjectBreak \/ ProjectRounds \/ ProjectThrows
  \/ LineSearchTest \/ ArmijoAccept \/ ArmijoShrink \/ ArmijoStall
  \/ Return \/ Throw

Spec == Init /\ [][Next]_vars

\* a call of repulsion_iteration is one synchronous run of the handler that
\* made it: once entered it goes on to its next phase until it returns or
\* throws
Phases ==
  {"idle", "build", "solve", "trial", "project", "armijo", "test", "recenter",
   "thrown"}

Running == pc # "idle" /\ pc' \in Phases /\ pc' # pc

LiveSpec == Spec /\ WF_pc(Running)

---------------------------------------------------------------------------
(* Claims about the topology cache *)

InSeq(x, s) == \E k \in 1..Len(s) : s[k] = x

Occurrences(x, s) == Cardinality({k \in 1..Len(s) : s[k] = x})

EndPts(e) == {e[1], e[2]}

NoSelfLoops(Es) == \A i \in DOMAIN Es : Es[i][1] # Es[i][2]

\* C1: for an edge list without self-loops the Ac that init_curve returns is
\* symmetric (J in Ac[I] iff I in Ac[J]) and irreflexive (I not in Ac[I]).
C1_AcSymmetric ==
  (topo.ok /\ NoSelfLoops(E)) =>
    \A I \in DOMAIN E :
      /\ ~InSeq(I, topo.Ac[I])
      /\ \A J \in DOMAIN E : InSeq(J, topo.Ac[I]) <=> InSeq(I, topo.Ac[J])

C1_Witness ==
  /\ topo.ok /\ NoSelfLoops(E)
  /\ \E I \in DOMAIN E : topo.Ac[I] # <<>>

\* C2: Ac[I] lists, in increasing order and without duplicates, exactly the
\* edges J # I that have no endpoint in common with edge I; for the unit
\* square (0,1),(1,2),(2,3),(3,0) this gives Ac[0] = {2} and Ac[1] = {3}.
C2_AcExact ==
  topo.ok =>
    /\ \A I \in DOMAIN E :
         LET row == topo.Ac[I]
         IN  /\ \A k \in 1..(Len(row) - 1) : row[k] < row[k + 1]
             /\ {row[k] : k \in 1..Len(row)} =
                  {J \in DOMAIN E : J # I /\ EndPts(E[I]) \cap EndPts(E[J]) = {}}
    /\ E = SquareE => (topo.Ac[0] = <<2>> /\ topo.Ac[1] = <<3>>)

C2_Witness == topo.ok /\ E = SquareE /\ topo.Ac[0] = <<2>>

\* C3: E_adj[p] holds exactly the edges that have p as an endpoint, each of
\* them once, so that E_adj[p].length is the number of incident edges.
C3_EAdjExact ==
  topo.ok =>
    \A p \in DOMAIN V : \A I \in DOMAIN E :
      Occurrences(I, topo.E_adj[p]) = (IF p \in EndPts(E[I]) THEN 1 ELSE 0)

\* C9: init_curve fails, returning no topology, whenever an edge names a
\* vertex outside 0..N-1 or is a self-loop.
C9_InvalidTopologyRejected ==
  (topo.called /\ (~EdgesInRange(E, Rows(V)) \/ ~NoSelfLoops(E))) => ~topo.ok


\* the lines of the file that are vertex lines `v x y z`, edge lines `l i j`
KindLines(content, word) == SelectSeq(content, LAMBDA line : line.w = word)

\* C16: read_curve_file returns one row of V for every line `v x y z`, one
\* row of E for every line `l i j`, in file order, the row of `l i j` being
\* (i - 1, j - 1); no other line gives a row.
C16_ReadCurveFile ==
  probe.fn = "read_curve_file" =>
    LET vs == KindLines(probe.content, <<"v">>)
        ls == KindLines(probe.content, <<"l">>)
    IN  /\ Rows(probe.V) = Len(vs)
        /\ Rows(probe.E) = Len(ls)
        /\ \A i \in 1..Len(ls) :
             probe.E[i - 1] = <<ls[i].t[1] - 1, ls[i].t[2] - 1>>

---------------------------------------------------------------------------
(* Claims about repulsion_iteration *)

\* the call has returned its vertices, it.V, after accepting a candidate
Accepted == pc = "idle" /\ it.outcome = "accepted"

TotalLength(Es, Vs) == RSum(CurrentLengths(Es, Vs))

\* the tangent-point energy of the curve at the vertices Vs
EnergyAt(Vs) == Energy(E, Ac, Vs, Tangents(E, Vs), CurrentLengths(E, Vs))

C6_StallIsNoOp ==
  (pc = "idle" /\ it.outcome = "stalled") => (it.V = it.Vin /\ V = it.Vin)

\* C7: when an edge of the input has coincident endpoints, the call fails
\* before build_weights, build_A_bar, loss_derivative or
\* constraint_derivative is called and before any division by the length.
C7_DegenerateRejected ==
  (/\ pc # "idle"
   /\ EdgesInRange(E, Rows(it.Vin))
   /\ \E i \in DOMAIN E : it.Vin[E[i][1]] = it.Vin[E[i][2]])
    => (pc = "thrown" /\ it.calls = {} /\ it.T = <<>>)

\* C8: when a solve fails, in the direction solve or in a projection round,
\* the call ends with the error and both the caller's V and the V store
\* hold the values they held before the call.
C8_SolveFailureKeepsV ==
  (pc \in {"thrown", "idle"} /\ it.error = "Matrix solving failed")
    => (it.V = it.Vin /\ V = it.Vin)

C8_Witness ==
  /\ pc = "idle" /\ it.outcome = "thrown"
  /\ it.error = "Matrix solving failed"
  /\ it.V_new # it.Vin

AtBranch(Es, adj) ==
  {I \in DOMAIN Es : \E p \in DOMAIN adj : Len(adj[p]) > 2 /\ InSeq(I, adj[p])}

\* C13: the constrained-edge list of a step holds every edge that has an
\* endpoint of degree > 2 exactly once and no other edge, so that with the
\* total-length constraint there are 1 + |such edges| constraints, and one
\* constraint for a curve without a branch vertex.  Stated for the curves
\* without self-loops, whose edges have two distinct endpoints.
C13_ConstraintSet ==
  (/\ pc \in {"build", "solve", "trial", "project", "armijo", "test", "recenter"}
   /\ NoSelfLoops(E)) =>
    /\ \A I \in DOMAIN E :
         Occurrences(I, it.constr_edges) =
           (IF I \in AtBranch(E, E_adj) THEN 1 ELSE 0)
    /\ 1 + Len(it.constr_edges) = 1 + Cardinality(AtBranch(E, E_adj))

\* a step of repulsion_iteration: from the call to the return or the throw
InStep == pc # "idle" \/ pc' # "idle"

\* the vertex array has N rows of three numbers
SameShape(Vs, Ws) == DOMAIN Vs = DOMAIN Ws /\ \A p \in DOMAIN Vs : Len(Vs[p]) = 3

\* C14: no step of repulsion_iteration changes E, Ac, E_adj or the rest
\* lengths, the vertices it returns have the shape of its input, and the
\* rest lengths stay the edge lengths of the vertices saved at the last load
\* that init_curve accepted.
C14_StepFrame ==
  /\ [][InStep => /\ E' = E /\ Ac' = Ac /\ E_adj' = E_adj /\ lengths' = lengths
                  /\ (pc' = "idle" => SameShape(it'.V, it.Vin) /\ V' = it'.V)]_vars
  /\ []((OV.defined /\ EdgesInRange(E, Rows(OV.V)))
          => lengths = EdgeLengths(E, OV.V))

C14_Witness ==
  /\ Accepted /\ V = it.V
  /\ CurrentLengths(E, V) # lengths
  /\ lengths = EdgeLengths(E, OV.V)

\* the stores hold the curve of a load that init_curve accepted
RestoredTo(content) ==
  /\ FileTopology[content].ok
  /\ V' = FileCurves[content].V
  /\ E' = FileCurves[content].E
  /\ lengths' = FileTopology[content].lengths
  /\ Ac' = FileTopology[content].Ac
  /\ E_adj' = FileTopology[content].E_adj

\* C15: no step changes the saved copy OV, and after a reset V, the rest
\* lengths, Ac and E_adj are those of a load that succeeded: the vertices the
\* file gave, the edge lengths measured at the load and the topology built
\* at the load.
C15_ResetRestores ==
  /\ [][InStep => OV' = OV]_vars
  /\ [][KeyR => \E content \in Files : RestoredTo(content)]_vars

\* C17: a press of Space flips isAnimating; while isAnimating is false no
\* frame is pending and no step called from animate is running, so V changes
\* only in a step started by the h key, in a reset or in a file load; a press
\* of h makes one call of repulsion_iteration and requests no frame.
C17_AnimationControl ==
  /\ [][(KeySpaceOn \/ KeySpaceOff) => isAnimating' = ~isAnimating]_vars
  /\ [](~isAnimating => ~framePending /\ caller # "animate")
  /\ [][(~isAnimating /\ V' # V) => (caller = "key" \/ KeyR \/ FileLoaded)]_vars
  /\ [][KeyH => /\ nsteps' = nsteps + 1
                /\ caller' = "key"
                /\ pc' \in {"build", "thrown"}
                /\ framePending' = framePending]_vars
  /\ [][(caller = "key" /\ pc' = "idle") =>
          framePending' = framePending /\ nsteps' = nsteps]_vars

C17_Witness ==
  /\ ~isAnimating /\ pc = "idle" /\ nsteps = MaxSteps
  /\ Accepted /\ V # OV.V

\* constraint_vals evaluated at the vertices Vs
ResidualAt(Vs) ==
  ConstraintVals(it.l0, it.constr_edges, lengths, CurrentLengths(E, Vs))

\* C18: in every round of the projection the new edge lengths and the
\* residual are those of the current candidate V_new, not of the input V.
\* Stated for the candidates whose edge lengths are rational.
C18_ResidualAtCandidate ==
  (pc = "project" /\ ExactGeom(E, it.V_new)) => Residual = ResidualAt(it.V_new)

\* C19: a trial is accepted exactly when the energy at the projected
\* candidate V_new is at most the energy at the input V plus
\* a_const * t * <descent_dir, Deriv>.  Stated for the candidates whose
\* energy is a number.
C19_ArmijoTest ==
  (/\ pc = "test"
   /\ ExactGeom(E, it.V_new)
   /\ ~IsNaN(EnergyAt(it.V_new)) /\ ~IsNaN(EnergyAt(it.Vin)))
    => (RLe(it.f_delta, it.right_side)
          <=> RLe(EnergyAt(it.V_new), RAdd(EnergyAt(it.Vin), it.right_side)))

\* the negated first 3 * pt_num entries of Unknown
Negated(u) == [q \in DOMAIN u |-> RNeg(u[q])]

\* C20: the descent direction is the negated solution of the direction
\* solve, not rescaled, and every trial candidate is the input V displaced
\* by t times the direction, whatever the rounds of an earlier trial added.
\* The first part is stated for the solutions that are not zero.
C20_DirectionAndTrial ==
  /\ (pc \in {"trial", "project", "armijo", "test"}
        /\ it.Unknown # ZeroFlat(Rows(it.Vin)))
       => it.descent_dir = Negated(it.Unknown)
  /\ (pc = "project" /\ it.iter = 0)
       => it.V_new = Displaced(it.Vin, it.t, it.descent_dir)

\* the call has passed its prologue: constr_edges, l0, L and T are computed
PastPrologue == pc \in {"build", "solve", "trial", "project", "armijo", "test", "recenter"}

\* C21: the rest value l0 of the total-length constraint is the arithmetic
\* sum of the rest lengths that init_curve returned.
C21_TotalRestLength ==
  PastPrologue => it.l0 = RSum(lengths)

\* the order of the phases of a call: the builds, the direction solve, then
\* per trial the displacement, the projection and the test
PhaseOrder ==
  { <<"idle", "build">>, <<"idle", "thrown">>, <<"build", "solve">>,
    <<"build", "thrown">>, <<"solve", "trial">>, <<"solve", "thrown">>,
    <<"trial", "project">>, <<"project", "armijo">>, <<"project", "thrown">>,
    <<"armijo", "test">>, <<"test", "trial">>, <<"test", "recenter">>,
    <<"recenter", "idle">>, <<"thrown", "idle">> }

\* C22: every call of repulsion_iteration ends; the phases follow each other
\* in the order build, solve, then trial, project, test for every trial; the
\* k-th trial has t = b_const^k; and a line search that ends without an
\* exception ends accepted or stalled, stalled exactly when t went below
\* the floor.
C22_Terminates ==
  /\ (pc # "idle") ~> (pc = "idle")
  /\ [][pc' # pc => <<pc, pc'>> \in PhaseOrder]_vars
  /\ [](pc \in {"trial", "project", "armijo", "test"} =>
          \E k \in 0..FloorSteps : it.t = RPow(b_const, k))
  /\ [](pc = "recenter" =>
          /\ it.outcome \in {"accepted", "stalled"}
          /\ it.outcome = "stalled" <=> RLt(it.t, t_floor))

C22_Witness ==
  /\ pc = "idle" /\ it.outcome = "stalled"
  /\ it.t = RPow(b_const, FloorSteps + 1)

\* the candidate of the current trial after n rounds of the projection
CandidateAfter(n) ==
  Displaced(Displaced(it.Vin, it.t, it.descent_dir), Int2R(n), it.Unknown2)

\* C23: the projection of a trial makes at most max_iters correction solves
\* and stops as soon as the residual of the candidate is within the
\* threshold: when it has made n + 1 rounds, the residual of the candidate
\* after n rounds (the total rest length minus the total length, and for
\* every constrained edge its rest length minus its length) was not within
\* the threshold.  Stated for the candidates whose edge lengths are rational.
C23_ProjectStops ==
  pc = "armijo" =>
    /\ it.iter <= max_iters
    /\ \A n \in 0..(it.iter - 1) :
         ExactGeom(E, CandidateAfter(n)) =>
           ~WithinThreshold(ConstraintVals(RSum(lengths), it.constr_edges, lengths,
                                           CurrentLengths(E, CandidateAfter(n))))

\* C24: in a call Left is assembled once, in the build phase, from the
\* input vertices; no later phase of the call, no trial and no round of a
\* projection, assembles it again or changes it, so every solve of the call
\* has the same Left.
C24_LeftOnce ==
  /\ [](pc \in {"solve", "trial", "project", "armijo", "test", "recenter"} =>
          /\ it.assemblies = 1
          /\ it.Left = buildBlockMatrix(E, Ac, E_adj, it.Vin, it.T, it.L,
                                        it.constr_edges))
  /\ [][(pc \notin {"idle", "build"} /\ pc' # "idle") =>
          (it'.Left = it.Left /\ it'.assemblies = it.assemblies)]_vars

C24_Witness ==
  /\ pc = "project" /\ it.solved2 /\ it.t # Int2R(1)
  /\ it.V_new # it.Vin /\ it.assemblies = 1

\* C28: after every load attempt, successful or failed, the stores V, E, Ac,
\* E_adj and lengths are mutually consistent: Ac, E_adj and lengths are what
\* init_curve builds from the stored edges and the loaded vertices, and V has
\* one row per loaded vertex; and a load that fails, one of a file on which
\* init_curve throws, leaves the five stores and OV as they were before it.
\* Every state of the page follows a load attempt, the first one made when
\* the page is mounted.
C28_LoadAtomic ==
  /\ [][(/\ pc = "idle"
         /\ \E content \in Files :
              ~FileTopology[content].ok /\ loadCurveData(content))
          => UNCHANGED stores]_vars
  /\ [](LET result == init_curve(E, OV.V)
        IN  /\ OV.defined
            /\ result.ok
            /\ Ac = result.Ac
            /\ E_adj = result.E_adj
            /\ lengths = result.lengths
            /\ Rows(V) = Rows(OV.V))

\* C29: at most one animation frame is pending at any time: animate()
\* requests a frame only when none is pending; and whenever isAnimating is
\* true after an invocation of animate() has ended, normally or by an
\* exception thrown from step(), the next frame is pending, so the loop does
\* not stop while the page reports that the animation is on.
C29_FrameChain ==
  /\ [][(caller = "animate" /\ pc # "idle" /\ pc' = "idle" /\ framePending')
          => ~framePending]_vars
  /\ [][(caller = "animate" /\ pc # "idle" /\ pc' = "idle" /\ isAnimating')
          => framePending']_vars
  /\ []((pc = "idle" /\ isAnimating) => framePending)

---------------------------------------------------------------------------
(* Claims about build_weights and build_A_bar *)

\* C11: the A_bar that build_A_bar returns is symmetric: A_bar[i,j] equals
\* A_bar[j,i] for all i, j in 0..3N-1, for every topology and geometry.
C11_ABarSymmetric ==
  probe.fn = "build_A_bar" =>
    \A i \in DOMAIN probe.A_bar : \A j \in DOMAIN probe.A_bar :
      NumEq(probe.A_bar[i][j], probe.A_bar[j][i])

\* C12: W and W0 of build_weights are symmetric on the disjoint pairs: for
\* all I and all J in Ac[I], W[I,J] = W[J,I] and W0[I,J] = W0[J,I].
C12_WeightsSymmetric ==
  probe.fn = "build_weights" =>
    \A I \in DOMAIN E : \A n \in 1..Len(Ac[I]) :
      LET J == Ac[I][n]
      IN  /\ NumEq(probe.W[I][J], probe.W[J][I])
          /\ NumEq(probe.W0[I][J], probe.W0[J][I])

\* the endpoint pairs (i, j) of the edges I and J that lie on one point
Coinciding(I, J) ==
  {n \in 0..3 : V[E[I][(n \div 2) + 1]] = V[E[J][(n % 2) + 1]]}

\* what the endpoint pair n of I and J adds to elt1 and to elt2 when its
\* points are at a distance d > 0
Increment(I, J, n) ==
  LET diff == subtractVectors(V[E[I][(n \div 2) + 1]], V[E[J][(n % 2) + 1]])
      d == vectorNorm(diff)
      cr == SumSq(crossProduct(diff, probe.T[I]))
  IN  <<RInv(PowSigma(d)), RDiv(RDiv(cr, RPow(d, 4)), PowSigma(d))>>

C26_WeightsSparse ==
  probe.fn = "build_weights" =>
    /\ DOMAIN probe.W = DOMAIN E /\ DOMAIN probe.W0 = DOMAIN E
    /\ \A I \in DOMAIN E :
         /\ DOMAIN probe.W[I] = DOMAIN E /\ DOMAIN probe.W0[I] = DOMAIN E
         /\ \A J \in DOMAIN E :
              ~InSeq(J, Ac[I]) => (probe.W[I][J] = Zero /\ probe.W0[I][J] = Zero)

C26_Witness ==
  /\ probe.fn = "build_weights"
  /\ \E I \in DOMAIN E : \E J \in DOMAIN E :
       /\ I # J /\ ~InSeq(J, Ac[I])
       /\ EndPts(E[I]) \cap EndPts(E[J]) # {}
       /\ RLt(Zero, probe.L[I]) /\ RLt(Zero, probe.L[J])

\* C27: A_bar uses the index 3p + c for coordinate c of vertex p, as Deriv,
\* the rows of C, the descent direction and the projection update do: its
\* entry (3p + c, 3q + d) is A[p, q] when c = d and 0 otherwise.  Stated for
\* the curves whose edges have a positive length.
C27_CommonLayout ==
  (/\ probe.fn = "build_A_bar"
   /\ \A I \in DOMAIN E : RLt(Zero, probe.L[I])) =>
    \A p \in DOMAIN V : \A q \in DOMAIN V : \A c \in 0..2 : \A d \in 0..2 :
      probe.A_bar[3 * p + c][3 * q + d] =
        (IF c = d
         THEN AEntry(E, Ac, probe.T, probe.L, probe.W, probe.W0, p, q)
         ELSE Zero)

=============================================================================
